---- MODULE Spec2Model ----
(***************************************************************************)
(* The action registry of porcupine/actions.py: the ordered mapping        *)
(* _actions, the three registration calls funnelling into                  *)
(* _add_any_action, the enabled setter with its virtual events, the        *)
(* tab-type based enabling, the keyboard dispatch and the lookups.         *)
(*                                                                         *)
(* Strings that the code inspects character by character (paths) are       *)
(* sequences of one-character strings.  An optional argument is a          *)
(* sequence: <<>> is Python's None and <<x>> is the value x.               *)
(***************************************************************************)
EXTENDS Integers, Sequences, FiniteSets, TLC

\* ------------------------------------------------------------- bounds
MaxPathLen == 2
MaxQueryLen == 3
MaxActions == 3
MaxEvents == 4
MaxCalls == 2
MaxWarnings == 2
NumListeners == 2
MaxQueued == 2
MaxLookupActions == 2

\* ------------------------------------------------------------- domains
Chars == {"/", "a"}
Strings(n) == UNION {[1..k -> Chars] : k \in 0..n}
PathInputs == Strings(MaxPathLen)
QueryInputs == Strings(MaxQueryLen)

None == <<>>
Some(x) == <<x>>

Keys == {"k"}
Listeners == 1..NumListeners

\* The classes a focused tab can have; select() gives None when there is no
\* tab, and FileTab is a subclass of Tab.
TabClasses == {"NoneType", "Tab", "FileTab"}
Bases(cls) == IF cls = "FileTab" THEN {"FileTab", "Tab"} ELSE {cls}
TabTypeInputs == {None, Some({"Tab"}), Some({"FileTab"}), Some({"NoneType"})}

\* The value cells (tkinter variables).  The caller owns one BooleanVar and
\* one StringVar that it may pass as var=; a registration without var=
\* creates the cell of its own path.
SharedB == <<"shared", <<>>>>
SharedS == <<"shared", <<>>>>
OwnCellAliased(path) == <<"shared", <<>>>>
OwnCell(path) == <<"own", path>>

VARIABLES actions, bvars, svars, emitted, received, stack, focused, tabQueue,
          subs, bindAll, bindText, calls, warnings, shown, outcome

vars == <<actions, bvars, svars, emitted, received, stack, focused, tabQueue,
          subs, bindAll, bindText, calls, warnings, shown, outcome>>

\* ------------------------------------------------------------- strings
startswith(s, c) == Len(s) > 0 /\ s[1] = c
endswith(s, c) == Len(s) > 0 /\ s[Len(s)] = c

rstripOnce(s, c) == IF endswith(s, c) THEN SubSeq(s, 1, Len(s) - 1) ELSE s
RECURSIVE rstrip(_, _)
rstrip(s, c) == IF endswith(s, c) THEN rstrip(SubSeq(s, 1, Len(s) - 1), c) ELSE s

ContainsAlways(seq, x) == TRUE
ContainsOrEmpty(seq, x) == seq = <<>> \/ \E i \in 1..Len(seq) : seq[i] = x
Contains(seq, x) == \E i \in 1..Len(seq) : seq[i] = x

\* ------------------------------------------------------------- _actions
PathsOf(acts) == {acts[i].path : i \in 1..Len(acts)}
Paths == PathsOf(actions)
ActionIn(acts, p) == acts[CHOOSE i \in 1..Len(acts) : acts[i].path = p]
ActionAt(p) == ActionIn(actions, p)

\* Action.__init__
InitialEnabled == TRUE
ActionKindLost(path, kind, callback_or_choices, binding, var) ==
    [path |-> path, kind |-> "command", binding |-> binding,
     enabled |-> InitialEnabled, var |-> var,
     choices |-> IF kind = "choice" THEN callback_or_choices ELSE <<>>]
Action(path, kind, callback_or_choices, binding, var) ==
    [path |-> path, kind |-> kind, binding |-> binding,
     enabled |-> InitialEnabled,
     var |-> var,
     choices |-> IF kind = "choice" THEN callback_or_choices ELSE <<>>]

\* get_action: the value returned, or the KeyError
Lookup(acts, action_path) ==
    LET key == rstrip(action_path, "/")
    IN IF key \in PathsOf(acts) THEN [res |-> "ok", ret |-> Some(ActionIn(acts, key))]
       ELSE [res |-> "NotFoundError", ret |-> None]
get_action(action_path) == Lookup(actions, action_path)

\* get_all_actions
get_all_actions == actions

\* What the last call of a caller gave back: the call, its path argument, the
\* exception raised (or "ok"), and aux: the other arguments or the value
\* returned.  The caller takes it (Return) before it makes the next call.
Outcome(op, path, res, aux) == [op |-> op, path |-> path, res |-> res, aux |-> aux]
Idle == Outcome("idle", <<>>, "ok", <<>>)

Init ==
    /\ actions = <<>>
    /\ bvars = (SharedB :> FALSE)
    /\ svars = (SharedS :> "a")
    /\ emitted = <<>>
    /\ received = [l \in Listeners |-> <<>>]
    /\ stack = <<>>
    /\ focused = "NoneType"
    /\ tabQueue = <<>>
    /\ subs = <<>>
    /\ bindAll = [k \in Keys |-> <<>>]
    /\ bindText = [k \in Keys |-> None]
    /\ calls = <<>>
    /\ warnings = <<>>
    /\ shown = {}
    /\ outcome = Idle

\* The event loop is idle: no call is running and the last result was taken.
Ready == stack = <<>> /\ outcome = Idle

Return ==
    /\ stack = <<>>
    /\ outcome # Idle
    /\ outcome' = Idle
    /\ warnings' = <<>>
    /\ UNCHANGED <<actions, bvars, svars, emitted, received, stack, focused, tabQueue,
                   subs, bindAll, bindText, calls, shown>>

\* ------------------------------------------------------------- events
\* A frame of the call stack (the head is the running call):
\*   "emit": event_generate(ev) is delivering ev to listener idx;
\*   "add":  _add_any_action waits for event_generate to return, at pc;
\*   "tab":  <<NotebookTabChanged>> is running the idx-th enable_or_disable of
\*           the last that were bound when its delivery began.
Frame(t, ev, idx, path, kind, binding, tabtypes, pc, last) ==
    [t |-> t, ev |-> ev, idx |-> idx, path |-> path, kind |-> kind,
     binding |-> binding, tabtypes |-> tabtypes, pc |-> pc, last |-> last]
EmitFrame(name, path) == Frame("emit", <<name, path>>, 1, path, "", None, None, "", 0)
AddFrame(path, kind, binding, tabtypes) ==
    Frame("add", <<"", path>>, 0, path, kind, binding, tabtypes, "L95", 0)
TabFrame(idx, last) == Frame("tab", <<"", <<>>>>, idx, <<>>, "", None, None, "", last)

\* Action.enabled setter
SetterAlways(old, is_enabled) == TRUE
SetterChanges(old, is_enabled) == old # is_enabled
EventName(is_enabled) == IF is_enabled THEN "ActionEnabled" ELSE "ActionDisabled"
WithEnabled(acts, p, b) ==
    [i \in 1..Len(acts) |->
        IF acts[i].path = p THEN [acts[i] EXCEPT !.enabled = b] ELSE acts[i]]
SetEnabled(p, is_enabled, below) ==
    IF SetterChanges(ActionAt(p).enabled, is_enabled)
    THEN /\ actions' = WithEnabled(actions, p, is_enabled)
         /\ emitted' = Append(emitted, <<EventName(is_enabled), p>>)
         /\ stack' = <<EmitFrame(EventName(is_enabled), p)>> \o below
    ELSE /\ UNCHANGED <<actions, emitted>>
         /\ stack' = below

\* enable_or_disable: isinstance(tab, actual_tabtypes)
isinstanceExact(cls, tabtypes) == cls \in tabtypes
isinstance(cls, tabtypes) == Bases(cls) \cap tabtypes # {}

\* The listeners bound to the three virtual events of the main window get an
\* event one after the other, in the order they were bound.
Deliver ==
    /\ stack # <<>>
    /\ Head(stack).t = "emit"
    /\ LET f == Head(stack)
       IN /\ received' = [received EXCEPT ![f.idx] = Append(@, f.ev)]
          /\ stack' = IF f.idx = NumListeners
                      THEN Tail(stack)
                      ELSE <<[f EXCEPT !.idx = @ + 1]>> \o Tail(stack)
    /\ UNCHANGED <<actions, bvars, svars, emitted, focused, tabQueue, subs, bindAll,
                   bindText, calls, warnings, shown, outcome>>

\* A listener of <<NewAction>>, <<ActionEnabled>> or <<ActionDisabled>> that
\* writes the enabled flag of the action of the event from inside its handler:
\* the setter runs, and generates the next event, before the handler returns
\* and before the listeners after it get the event being delivered.
DeliverWrite(is_enabled) ==
    /\ stack # <<>>
    /\ Head(stack).t = "emit"
    /\ Len(emitted) < MaxEvents
    /\ LET f == Head(stack)
           below == IF f.idx = NumListeners
                    THEN Tail(stack)
                    ELSE <<[f EXCEPT !.idx = @ + 1]>> \o Tail(stack)
       IN /\ received' = [received EXCEPT ![f.idx] = Append(@, f.ev)]
          /\ SetEnabled(f.path, is_enabled, below)
    /\ UNCHANGED <<bvars, svars, focused, tabQueue, subs, bindAll, bindText, calls,
                   warnings, shown, outcome>>

\* ------------------------------------------------------------- registration
PathSyntaxBadStartOnly(path) == startswith(path, "/")
PathSyntaxBad(path) == startswith(path, "/") \/ endswith(path, "/")
PathTakenNever(path) == FALSE
PathTaken(path) == path \in Paths
AddCheck(path) ==
    IF PathSyntaxBad(path) THEN "InvalidPathError"
    ELSE IF PathTaken(path) THEN "DuplicatePathError"
    ELSE "ok"

\* _add_any_action with enable_or_disable() run before event_generate
add_any_action_enable_first(op, args, path, kind, callback_or_choices, binding, var, tabtypes) ==
    LET res == AddCheck(path)
        en == tabtypes = None \/ isinstance(focused, tabtypes[1])
    IN /\ outcome' = Outcome(op, path, res, args)
       /\ IF res = "ok"
          THEN /\ Len(actions) < MaxActions
               /\ Len(emitted) + 2 <= MaxEvents
               /\ actions' = Append(actions,
                      [Action(path, kind, callback_or_choices, binding, var)
                          EXCEPT !.enabled = en])
               /\ emitted' = emitted
                      \o (IF en THEN <<>> ELSE <<<<"ActionDisabled", path>>>>)
                      \o <<<<"NewAction", path>>>>
               /\ stack' = <<EmitFrame("NewAction", path),
                             AddFrame(path, kind, binding, tabtypes)>>
          ELSE UNCHANGED <<actions, emitted, stack>>
       /\ calls' = IF res = "ok" /\ kind = "command" THEN calls @@ (path :> 0) ELSE calls
       /\ UNCHANGED <<received, focused, tabQueue, subs, bindAll, bindText>>

\* _add_any_action up to event_generate('<<NewAction>>'), line 93
add_any_action(op, args, path, kind, callback_or_choices, binding, var, tabtypes) ==
    LET res == AddCheck(path)
    IN /\ outcome' = Outcome(op, path, res, args)
       /\ IF res = "ok"
          THEN /\ Len(actions) < MaxActions
               /\ Len(emitted) + 2 <= MaxEvents
               /\ actions' = Append(actions,
                      Action(path, kind, callback_or_choices, binding, var))
               /\ emitted' = Append(emitted, <<"NewAction", path>>)
               /\ stack' = <<EmitFrame("NewAction", path),
                             AddFrame(path, kind, binding, tabtypes)>>
          ELSE UNCHANGED <<actions, emitted, stack>>
       /\ calls' = IF res = "ok" /\ kind = "command" THEN calls @@ (path :> 0) ELSE calls
       /\ UNCHANGED <<received, focused, tabQueue, subs, bindAll, bindText>>

\* _add_any_action from line 95 on, entered when event_generate returns
AddResume ==
    /\ stack # <<>>
    /\ Head(stack).t = "add"
    /\ LET f == Head(stack)
           below == Tail(stack)
       IN IF /\ f.pc = "L95"
             /\ f.tabtypes # None
             /\ SetterChanges(ActionAt(f.path).enabled,
                              isinstance(focused, f.tabtypes[1]))
          THEN /\ SetEnabled(f.path, isinstance(focused, f.tabtypes[1]),
                             <<[f EXCEPT !.pc = "L107"]>> \o below)
               /\ UNCHANGED <<subs, bindAll, bindText>>
          ELSE /\ subs' = IF f.tabtypes # None
                          THEN Append(subs, [path |-> f.path,
                                             tabtypes |-> f.tabtypes[1]])
                          ELSE subs
               /\ bindAll' = IF f.binding # None
                             THEN [bindAll EXCEPT ![f.binding[1]] = Append(@, f.path)]
                             ELSE bindAll
               /\ bindText' = IF f.binding # None
                              THEN [bindText EXCEPT ![f.binding[1]] = Some(f.path)]
                              ELSE bindText
               /\ stack' = below
               /\ UNCHANGED <<actions, emitted>>
    /\ UNCHANGED <<bvars, svars, received, focused, tabQueue, calls, warnings, shown, outcome>>

\* A listener of one of the three events that registers a command from inside
\* its handler: add_command runs up to its own event_generate before the
\* handler returns, and goes on from line 95 when the listeners of the new
\* <<NewAction>> are done.  An exception of the registration ends the handler
\* and nothing else: Tk reports it and goes on with the next listener.
DeliverAdd(path, tabtypes) ==
    /\ stack # <<>>
    /\ Head(stack).t = "emit"
    /\ LET f == Head(stack)
           below == IF f.idx = NumListeners
                    THEN Tail(stack)
                    ELSE <<[f EXCEPT !.idx = @ + 1]>> \o Tail(stack)
       IN /\ received' = [received EXCEPT ![f.idx] = Append(@, f.ev)]
          /\ IF AddCheck(path) = "ok"
             THEN /\ Len(actions) < MaxActions
                  /\ Len(emitted) + 2 <= MaxEvents
                  /\ actions' = Append(actions, Action(path, "command", path, None, None))
                  /\ emitted' = Append(emitted, <<"NewAction", path>>)
                  /\ stack' = <<EmitFrame("NewAction", path),
                                AddFrame(path, "command", None, tabtypes)>> \o below
                  /\ calls' = calls @@ (path :> 0)
             ELSE /\ stack' = below
                  /\ UNCHANGED <<actions, emitted, calls>>
    /\ UNCHANGED <<bvars, svars, focused, tabQueue, subs, bindAll, bindText,
                   warnings, shown, outcome>>

Fail(op, args, path, res) ==
    /\ outcome' = Outcome(op, path, res, args)
    /\ UNCHANGED <<actions, bvars, svars, emitted, received, stack, focused, tabQueue,
                   subs, bindAll, bindText, calls, warnings, shown>>

add_command(path, keyboard_binding, tabtypes) ==
    /\ Ready
    /\ add_any_action("add_command", <<>>, path, "command", path,
                      keyboard_binding, None, tabtypes)
    /\ UNCHANGED <<bvars, svars, warnings, shown>>

add_yesno(path, default, keyboard_binding, var, tabtypes) ==
    /\ Ready
    /\ IF var = None
       THEN IF default = None
            THEN Fail("add_yesno", <<default, var>>, path, "ConfigurationError")
            ELSE /\ add_any_action("add_yesno", <<default, var>>, path, "yesno", None,
                                   keyboard_binding, Some(OwnCell(path)), tabtypes)
                 /\ bvars' = IF AddCheck(path) = "ok"
                             THEN bvars @@ (OwnCell(path) :> default[1])
                             ELSE bvars
                 /\ UNCHANGED <<svars, warnings, shown>>
       ELSE /\ bvars' = IF default # None
                        THEN [bvars EXCEPT ![var[1]] = default[1]]
                        ELSE bvars
            /\ add_any_action("add_yesno", <<default, var>>, path, "yesno", None,
                              keyboard_binding, var, tabtypes)
            /\ UNCHANGED <<svars, warnings, shown>>

\* What a StringVar gives back for a value written to it: StringVar.get
\* returns str(value).  The values are Python strings, written here as they
\* are, and the integer 1, written Int1; str(1) is the string "1".
Int1 == "int 1"
str(value) == IF value = Int1 THEN "1" ELSE value

\* A write of a StringVar runs the write traces on it, the most recently
\* added first: Action._var_set_check of every choice action holding the cell.
\* Each one whose choices lack the value calls warnings.warn with a text made
\* of repr(self), which is the path, the kind and the enabled flag, and of the
\* value.
WarningText(a, value) == <<a.path, a.kind, a.enabled, value>>
RECURSIVE TraceWarnings(_, _, _)
TraceWarnings(acts, cell, value) ==
    IF acts = <<>> THEN <<>>
    ELSE LET a == acts[Len(acts)]
             rest == TraceWarnings(SubSeq(acts, 1, Len(acts) - 1), cell, value)
         IN IF a.kind = "choice" /\ a.var = Some(cell) /\ ~Contains(a.choices, value)
            THEN <<WarningText(a, value)>> \o rest
            ELSE rest

\* warnings.warn with the filters Python starts with: a RuntimeWarning is
\* reported the first time its text comes from a line, and the registry of
\* the module remembers the text; the same text from the same line is not
\* reported again.  A report names the action and the value.
RECURSIVE Warn(_, _)
Warn(texts, registry) ==
    IF texts = <<>> THEN [reports |-> <<>>, registry |-> registry]
    ELSE LET t == Head(texts)
             rest == Warn(Tail(texts), registry \cup {t})
         IN IF t \in registry
            THEN rest
            ELSE [rest EXCEPT !.reports = <<<<t[1], t[4]>>>> \o @]

VarSet(cell, value) ==
    LET w == Warn(TraceWarnings(actions, cell, str(value)), shown)
    IN /\ Len(warnings) + Len(w.reports) <= MaxWarnings
       /\ svars' = [svars EXCEPT ![cell] = str(value)]
       /\ warnings' = warnings \o w.reports
       /\ shown' = w.registry

add_choice(path, choices, default, var, tabtypes) ==
    /\ Ready
    /\ IF var = None
       THEN IF default = None /\ choices = <<>>
            THEN Fail("add_choice", <<choices, default, var>>, path, "IndexError")
            ELSE IF default # None /\ ~Contains(choices, default[1])
            THEN Fail("add_choice", <<choices, default, var>>, path, "InvalidChoiceError")
            ELSE /\ add_any_action("add_choice", <<choices, default, var>>, path, "choice", choices,
                                   None, Some(OwnCell(path)), tabtypes)
                 /\ svars' = IF AddCheck(path) = "ok"
                             THEN svars @@ (OwnCell(path) :>
                                     str(IF default = None THEN choices[1] ELSE default[1]))
                             ELSE svars
                 /\ UNCHANGED <<bvars, warnings, shown>>
       ELSE IF ~Contains(choices, svars[var[1]])
            THEN Fail("add_choice", <<choices, default, var>>, path, "InvalidChoiceError")
            ELSE IF default # None /\ ~Contains(choices, default[1])
            THEN Fail("add_choice", <<choices, default, var>>, path, "InvalidChoiceError")
            ELSE /\ IF default # None
                    THEN VarSet(var[1], default[1])
                    ELSE UNCHANGED <<svars, warnings, shown>>
                 /\ add_any_action("add_choice", <<choices, default, var>>, path, "choice", choices,
                                   None, var, tabtypes)
                 /\ UNCHANGED bvars

\* ------------------------------------------------------------- callers
\* action.enabled = b, written by any holder of the action
SetEnabledCall(p, b) ==
    /\ Ready
    /\ p \in Paths
    /\ SetterChanges(ActionAt(p).enabled, b) => Len(emitted) < MaxEvents
    /\ outcome' = Outcome("set_enabled", p, "ok", <<b>>)
    /\ SetEnabled(p, b, <<>>)
    /\ UNCHANGED <<bvars, svars, received, focused, tabQueue, subs, bindAll, bindText,
                   calls, warnings, shown>>

\* The tab manager selects a tab of class cls: from now on select() gives that
\* tab, and the notebook queues a <<NotebookTabChanged>> event, which is
\* delivered later, from the event loop.  Each queued event is kept with the
\* change of selection that queued it; the handlers do not see it, they read
\* select().
SelectTab(cls) ==
    /\ Ready
    /\ Len(tabQueue) < MaxQueued
    /\ focused' = cls
    /\ tabQueue' = Append(tabQueue, <<focused, cls>>)
    /\ UNCHANGED <<actions, bvars, svars, emitted, received, stack, subs,
                   bindAll, bindText, calls, warnings, shown, outcome>>

\* The event loop delivers the oldest queued <<NotebookTabChanged>>: the
\* enable_or_disable handlers that are bound to it now run, in the order they
\* were bound; a handler bound while the delivery runs waits for the next
\* event.
TabChangeEmits(cls) ==
    Cardinality({i \in 1..Len(subs) :
        SetterChanges(ActionAt(subs[i].path).enabled, isinstance(cls, subs[i].tabtypes))})
TabChanged ==
    /\ Ready
    /\ tabQueue # <<>>
    /\ Len(emitted) + TabChangeEmits(focused) <= MaxEvents
    /\ tabQueue' = Tail(tabQueue)
    /\ outcome' = Outcome("tab_changed", <<>>, "ok", Head(tabQueue))
    /\ stack' = IF subs = <<>> THEN <<>> ELSE <<TabFrame(1, Len(subs))>>
    /\ UNCHANGED <<actions, bvars, svars, emitted, received, focused, subs,
                   bindAll, bindText, calls, warnings, shown>>

\* One enable_or_disable bound to <<NotebookTabChanged>> runs
TabNext ==
    /\ stack # <<>>
    /\ Head(stack).t = "tab"
    /\ LET f == Head(stack)
           sub == subs[f.idx]
           below == IF f.idx = f.last
                    THEN Tail(stack)
                    ELSE <<[f EXCEPT !.idx = @ + 1]>> \o Tail(stack)
       IN SetEnabled(sub.path, isinstance(focused, sub.tabtypes), below)
    /\ UNCHANGED <<bvars, svars, received, focused, tabQueue, subs, bindAll, bindText,
                   calls, warnings, shown, outcome>>

\* A holder of a StringVar writes it directly
WriteVar(cell, value) ==
    /\ Ready
    /\ cell \in DOMAIN svars
    /\ VarSet(cell, value)
    /\ outcome' = Outcome("var_set", cell[2], "ok", <<cell[1], value>>)
    /\ UNCHANGED <<actions, bvars, emitted, received, stack, focused, tabQueue, subs,
                   bindAll, bindText, calls>>

\* A holder of a BooleanVar writes it directly
WriteBoolVar(cell, value) ==
    /\ Ready
    /\ cell \in DOMAIN bvars
    /\ bvars' = [bvars EXCEPT ![cell] = value]
    /\ outcome' = Outcome("boolvar_set", cell[2], "ok", <<cell[1], value>>)
    /\ UNCHANGED <<actions, svars, emitted, received, stack, focused, tabQueue, subs,
                   bindAll, bindText, calls, warnings, shown>>

GetAction(q) ==
    /\ Ready
    /\ outcome' = Outcome("get_action", q, get_action(q).res, get_action(q).ret)
    /\ UNCHANGED <<actions, bvars, svars, emitted, received, stack, focused, tabQueue,
                   subs, bindAll, bindText, calls, warnings, shown>>


\* ------------------------------------------------------------- keyboard
\* bind_callback of one action: what it does to the cells and the callback
\* counts, and what it returns to Tk
bind_callback_always_break(a, bv, cl) ==
    [bvars |-> IF a.enabled /\ a.kind = "yesno" THEN [bv EXCEPT ![a.var[1]] = ~@] ELSE bv,
     calls |-> IF a.enabled /\ a.kind = "command" THEN [cl EXCEPT ![a.path] = @ + 1] ELSE cl,
     ret |-> "break"]
bind_callback_never_break(a, bv, cl) ==
    [bvars |-> IF a.enabled /\ a.kind = "yesno" THEN [bv EXCEPT ![a.var[1]] = ~@] ELSE bv,
     calls |-> IF a.enabled /\ a.kind = "command" THEN [cl EXCEPT ![a.path] = @ + 1] ELSE cl,
     ret |-> "None"]
bind_callback(a, bv, cl) ==
    IF a.enabled
    THEN [bvars |-> IF a.kind = "yesno" THEN [bv EXCEPT ![a.var[1]] = ~@] ELSE bv,
          calls |-> IF a.kind = "command" THEN [cl EXCEPT ![a.path] = @ + 1] ELSE cl,
          ret |-> "break"]
    ELSE [bvars |-> bv, calls |-> cl, ret |-> "None"]

\* The handlers Tk runs for the key: inside a Text widget the binding of the
\* Text class (bind_class, add=False: one handler) and then the bindings of
\* 'all' (bind_all, add=True: every handler, in the order they were added).
ChainGlobalFirst(key, inText) ==
    bindAll[key] \o (IF inText /\ bindText[key] # None THEN bindText[key] ELSE <<>>)
Chain(key, inText) ==
    (IF inText /\ bindText[key] # None THEN bindText[key] ELSE <<>>) \o bindAll[key]

\* Tk runs the handlers in order until one returns 'break'
RECURSIVE Dispatch(_, _, _, _)
Dispatch(chain, i, bv, cl) ==
    IF i > Len(chain)
    THEN [bvars |-> bv, calls |-> cl, invoked |-> <<>>, ret |-> "None"]
    ELSE LET r == bind_callback(ActionAt(chain[i]), bv, cl)
         IN IF r.ret = "break"
            THEN [bvars |-> r.bvars, calls |-> r.calls,
                  invoked |-> <<chain[i]>>, ret |-> "break"]
            ELSE LET rest == Dispatch(chain, i + 1, r.bvars, r.calls)
                 IN [rest EXCEPT !.invoked = <<chain[i]>> \o @]

\* The user presses the key, inside or outside a Text widget
Fire(key, inText) ==
    /\ Ready
    /\ \A p \in DOMAIN calls : calls[p] < MaxCalls
    /\ LET r == Dispatch(Chain(key, inText), 1, bvars, calls)
       IN /\ bvars' = r.bvars
          /\ calls' = r.calls
          /\ outcome' = Outcome("key", r.invoked, r.ret, <<key, inText>>)
    /\ UNCHANGED <<actions, svars, emitted, received, stack, focused, tabQueue, subs,
                   bindAll, bindText, warnings, shown>>

\* ------------------------------------------------------------- specifications

\* Registration and lookup: the three registration calls on every path of
\* PathInputs, with the caller's BooleanVar or without a cell, and lookups.
YesNoArgs == {<<None, None>>, <<None, Some(SharedB)>>, <<Some(TRUE), Some(SharedB)>>}
\* choices, default and var of add_choice: an empty list, a default that is
\* not a choice, and a default written to the caller's StringVar.
ChoiceArgs == {<<<<>>, None, None>>,
               <<<<"a", "b">>, Some("c"), None>>,
               <<<<"a", "b">>, Some("b"), Some(SharedS)>>}
\* Here the registrations stop at MaxLookupActions actions.
Next ==
    \/ \E path \in PathInputs :
          add_command(path, None, None) /\ Len(actions') <= MaxLookupActions
    \/ \E path \in PathInputs, dv \in YesNoArgs :
          add_yesno(path, dv[1], None, dv[2], None) /\ Len(actions') <= MaxLookupActions
    \/ \E path \in PathInputs, cdv \in ChoiceArgs :
          add_choice(path, cdv[1], cdv[2], cdv[3], None) /\ Len(actions') <= MaxLookupActions
    \/ \E q \in QueryInputs : GetAction(q)
    \/ Deliver
    \/ AddResume
    \/ Return

Spec == Init /\ [][Next]_vars

\* Enabling: commands with and without tab types, writes of enabled, tab changes.
EnablePaths == {<<"a">>, <<"a", "a">>}
NextEnable ==
    \/ \E path \in EnablePaths, tt \in TabTypeInputs : add_command(path, None, tt)
    \/ \E p \in Paths, b \in BOOLEAN : SetEnabledCall(p, b)
    \/ \E cls \in TabClasses : SelectTab(cls)
    \/ TabChanged
    \/ Deliver
    \/ AddResume
    \/ TabNext
    \/ Return

SpecEnable == Init /\ [][NextEnable]_vars

\* Keyboard: commands and yes/no actions bound to the key, writes of enabled,
\* key presses inside and outside a Text widget.
NextKeys ==
    \/ \E path \in EnablePaths : add_command(path, Some("k"), None)
    \/ \E path \in EnablePaths, v \in {None, Some(SharedB)} :
          add_yesno(path, IF v = None THEN Some(FALSE) ELSE None, Some("k"), v, None)
    \/ \E p \in Paths, b \in BOOLEAN : SetEnabledCall(p, b)
    \/ \E inText \in BOOLEAN : Fire("k", inText)
    \/ Deliver
    \/ AddResume
    \/ Return

SpecKeys == Init /\ [][NextKeys]_vars

\* Listeners that write: the command a registered by a caller, with and without
\* tab types, tab changes, writes of enabled by callers and by the listeners of
\* the three events from inside their handlers, and the command a/a registered
\* with tab types by a listener from inside its handler.
ReentrantTabTypes == {None, Some({"Tab"})}
NextReentrant ==
    \/ \E tt \in ReentrantTabTypes : add_command(<<"a">>, None, tt)
    \/ \E p \in Paths, b \in BOOLEAN : SetEnabledCall(p, b)
    \/ \E cls \in {"NoneType", "FileTab"} : SelectTab(cls)
    \/ TabChanged
    \/ Deliver
    \/ \E b \in BOOLEAN : DeliverWrite(b)
    \/ DeliverAdd(<<"a", "a">>, Some({"Tab"}))
    \/ AddResume
    \/ TabNext
    \/ Return

SpecReentrant == Init /\ [][NextReentrant]_vars

\* Values: yes/no and choice actions with every combination of default and
\* var, and direct writes of the variables by their holders.
ChoiceLists == {<<>>, <<"a", "b">>, <<"b", "c">>, <<Int1, "b">>}
ChoiceDefaults == {None, Some("b"), Some("c"), Some(Int1)}
CallerValues == {"c", "d", Int1}
NextValues ==
    \/ \E path \in EnablePaths, d \in {None, Some(TRUE), Some(FALSE)},
          v \in {None, Some(SharedB)} : add_yesno(path, d, None, v, None)
    \/ \E path \in EnablePaths, c \in ChoiceLists, d \in ChoiceDefaults,
          v \in {None, Some(SharedS)} : add_choice(path, c, d, v, None)
    \/ \E value \in CallerValues : WriteVar(SharedS, value)
    \/ \E cell \in DOMAIN bvars, value \in BOOLEAN : WriteBoolVar(cell, value)
    \/ Deliver
    \/ AddResume
    \/ Return

SpecValues == Init /\ [][NextValues]_vars

\* The mapping: the three registration calls, with arguments that pass and
\* arguments that fail, on three paths that can be registered and one that
\* cannot, and lookups.
MappingPaths == {<<>>, <<"a">>, <<"a", "a">>, <<"/">>}
NextMapping ==
    \/ \E path \in MappingPaths : add_command(path, None, None)
    \/ \E path \in MappingPaths, dv \in YesNoArgs :
          add_yesno(path, dv[1], None, dv[2], None)
    \/ \E path \in MappingPaths, cdv \in ChoiceArgs :
          add_choice(path, cdv[1], cdv[2], cdv[3], None)
    \/ \E q \in MappingPaths : GetAction(q)
    \/ Deliver
    \/ AddResume
    \/ Return

SpecMapping == Init /\ [][NextMapping]_vars

\* Direct writes: choice actions with a variable of their own or the caller's
\* StringVar, writes of every variable with values in and outside the choices,
\* the same value again, and writes of enabled, which change the text of the
\* reports.
WriteChoices == {<<"a", "b">>, <<Int1, "b">>}
WrittenValues == {"b", "d", Int1}
NextWrites ==
    \/ \E path \in EnablePaths, c \in WriteChoices, v \in {None, Some(SharedS)} :
          add_choice(path, c, None, v, None)
    \/ \E cell \in DOMAIN svars, value \in WrittenValues : WriteVar(cell, value)
    \/ SetEnabledCall(<<"a">>, FALSE)
    \/ Deliver
    \/ AddResume
    \/ Return

SpecWrites == Init /\ [][NextWrites]_vars

\* ------------------------------------------------------------- claims
RegOps == {"add_command", "add_yesno", "add_choice"}
KindOf(op) == IF op = "add_command" THEN "command"
              ELSE IF op = "add_yesno" THEN "yesno" ELSE "choice"

\* The step is a call of one of the three registration functions
RegCall == Ready /\ outcome'.op \in RegOps

\* The content of the cell of an action (a command has none)
ValueIn(bv, sv, a) == IF a.kind = "yesno" THEN Some(bv[a.var[1]])
                      ELSE IF a.kind = "choice" THEN Some(sv[a.var[1]])
                      ELSE None

\* The path starts or ends with the separator
SlashEdged(p) == Len(p) > 0 /\ (p[1] = "/" \/ p[Len(p)] = "/")

\* C1: a registration call on a path that is already registered fails with
\* DuplicatePathError, and the action registered under the path is afterwards
\* what it was before the call: the same kind, binding and enabled flag, and
\* the same value in its cell.
C1_DuplicateKeepsFirst ==
    [][(RegCall /\ outcome'.res = "DuplicatePathError")
         => /\ outcome'.path \in Paths
            /\ ActionIn(actions', outcome'.path) = ActionAt(outcome'.path)
            /\ ValueIn(bvars', svars', ActionIn(actions', outcome'.path))
                 = ValueIn(bvars, svars, ActionAt(outcome'.path))]_vars

\* C2: a registration call that fails with InvalidPathError or
\* DuplicatePathError leaves the mapping, the enabled flags, the emitted
\* notifications, the subscriptions, the shortcut handlers and the content of
\* every cell as they were before the call.
C2_FailedCallLeavesState ==
    [][(RegCall /\ outcome'.res \in {"InvalidPathError", "DuplicatePathError"})
         => UNCHANGED <<actions, emitted, received, subs, bindAll, bindText,
                        bvars, svars>>]_vars

\* The value arguments of the call pass the checks that add_yesno and
\* add_choice make before they hand the path to _add_any_action
ValueArgsPass(o, sv) ==
    IF o.op = "add_yesno" THEN ~(o.aux[1] = None /\ o.aux[2] = None)
    ELSE IF o.op = "add_choice"
    THEN LET choices == o.aux[1]
             default == o.aux[2]
             var == o.aux[3]
         IN /\ default # None => \E i \in 1..Len(choices) : choices[i] = default[1]
            /\ var = None /\ default = None => choices # <<>>
            /\ var # None => \E i \in 1..Len(choices) : choices[i] = sv[var[1]]
    ELSE TRUE

\* C3, as the spec states it: every registration call with a path that starts
\* or ends with "/" fails with InvalidPathError and registers no action.
C3_BadPathIsInvalidPathError ==
    (outcome.op \in RegOps /\ SlashEdged(outcome.path))
        => outcome.res = "InvalidPathError" /\ outcome.path \notin Paths

\* C3, amended: a registration call with a path that starts or ends with "/"
\* fails and registers no action; it fails with InvalidPathError, registered
\* or not, unless add_yesno or add_choice has already rejected the value
\* arguments (neither default nor var; a default or a cell content that is not
\* in choices; no choices), which they check before the path.
C3_BadPathFails ==
    [][(RegCall /\ SlashEdged(outcome'.path))
         => /\ outcome'.res # "ok"
            /\ outcome'.path \notin Paths'
            /\ Paths' = Paths
            /\ ValueArgsPass(outcome', svars) <=> outcome'.res = "InvalidPathError"]_vars

C3_Witness ==
    /\ outcome.op = "add_choice"
    /\ outcome.path = <<"a", "/">>
    /\ outcome.res = "InvalidPathError"
    /\ <<"a">> \in Paths

\* C4: from the successful registration of a path on, get_action(path) gives
\* an action with that path and the kind of the call that registered it.
C4_LookupAfterAdd ==
    [][/\ (RegCall /\ outcome'.res = "ok")
            => LET r == Lookup(actions', outcome'.path)
               IN /\ outcome'.path \notin Paths
                  /\ r.res = "ok"
                  /\ r.ret[1].path = outcome'.path
                  /\ r.ret[1].kind = KindOf(outcome'.op)
       /\ \A p \in Paths :
            LET r == Lookup(actions', p)
            IN /\ r.res = "ok"
               /\ r.ret[1].path = p
               /\ r.ret[1].kind = get_action(p).ret[1].kind]_vars

C4_Witness ==
    /\ Len(actions) = 2
    /\ outcome.op = "get_action"
    /\ outcome.res = "ok"
    /\ outcome.aux[1].kind = "choice"
    /\ outcome.aux[1].path = actions[1].path
    /\ actions[2].kind = "yesno"

\* C5, as the spec states it: get_action(q) looks up q without one trailing
\* "/" (if it has one), and fails with NotFoundError if that is no registered
\* path.
C5_LookupTrimsOneSlash ==
    outcome.op = "get_action"
        => LET q == outcome.path
               key == IF Len(q) > 0 /\ q[Len(q)] = "/" THEN SubSeq(q, 1, Len(q) - 1) ELSE q
           IN IF key \in Paths
              THEN outcome.res = "ok" /\ outcome.aux = Some(ActionAt(key))
              ELSE outcome.res = "NotFoundError" /\ outcome.aux = None

\* C5, amended: get_action(q) looks up q without all of its trailing "/": the
\* prefix of q that does not end with "/" and is followed by nothing but "/".
C5_LookupTrimsAllSlashes ==
    outcome.op = "get_action"
        => LET q == outcome.path
           IN \E n \in 0..Len(q) :
                 /\ \A i \in (n + 1)..Len(q) : q[i] = "/"
                 /\ n > 0 => q[n] # "/"
                 /\ IF SubSeq(q, 1, n) \in Paths
                    THEN /\ outcome.res = "ok"
                         /\ outcome.aux = Some(ActionAt(SubSeq(q, 1, n)))
                    ELSE outcome.res = "NotFoundError" /\ outcome.aux = None

C5_Witness ==
    /\ outcome.op = "get_action"
    /\ outcome.path = <<"a", "/", "/">>
    /\ outcome.res = "ok"
    /\ outcome.aux[1].path = <<"a">>

\* The enable and disable notifications of path p in a log, in order
EnableEvents(log, p) ==
    SelectSeq(log, LAMBDA e : e[2] = p /\ e[1] \in {"ActionEnabled", "ActionDisabled"})

\* The notifications of path p that the step adds to the emitted ones
EnableEventsAdded(p) ==
    {i \in (Len(emitted) + 1)..Len(emitted') :
        emitted'[i][2] = p /\ emitted'[i][1] \in {"ActionEnabled", "ActionDisabled"}}

\* C6: a write of the enabled flag with the value it has changes nothing and
\* emits nothing; a write with the other value emits exactly one notification,
\* with the path of the action, "action enabled" for true and "action
\* disabled" for false.
C6_SetterNotifiesTransitions ==
    [][/\ SubSeq(emitted', 1, Len(emitted)) = emitted
       /\ \A p \in Paths :
            IF ActionIn(actions', p).enabled = ActionAt(p).enabled
            THEN EnableEventsAdded(p) = {}
            ELSE emitted' = Append(emitted,
                    <<IF ActionIn(actions', p).enabled
                      THEN "ActionEnabled" ELSE "ActionDisabled", p>>)
       /\ (/\ Ready
           /\ outcome'.op = "set_enabled"
           /\ outcome'.aux[1] = ActionAt(outcome'.path).enabled)
            => UNCHANGED <<actions, bvars, svars, emitted, received, stack,
                           focused, tabQueue, subs, bindAll, bindText, calls, warnings>>]_vars

\* A write of TRUE to an action that was never re-enabled (so it wrote the
\* value the flag had), after a disabling of some action
C6_Witness ==
    /\ outcome.op = "set_enabled"
    /\ outcome.aux = <<TRUE>>
    /\ EnableEvents(emitted, outcome.path) = <<>>
    /\ \E i \in 1..Len(emitted) : emitted[i][1] = "ActionDisabled"
    /\ \E i \in 1..Len(emitted) : emitted[i][1] = "ActionEnabled"

\* What a collaborator holds for path p after the notifications of the log:
\* enabled from "new action" on, then what the last notification said
Replay(log, p) ==
    LET idx == {i \in 1..Len(log) : log[i][2] = p}
    IN IF idx = {} THEN None
       ELSE LET last == CHOOSE i \in idx : \A j \in idx : j <= i
            IN Some(log[last][1] \in {"NewAction", "ActionEnabled"})

\* C7, as the spec states it: when no call is running, every listener that replays the notifications
\* it got holds the enabled flag of every action, and the enable and disable
\* notifications of a path alternate, the first being "action disabled".
C7_ReplayGivesEnabled ==
    stack = <<>>
        => \A l \in Listeners : \A p \in Paths :
              /\ Replay(received[l], p) = Some(ActionAt(p).enabled)
              /\ LET es == EnableEvents(received[l], p)
                 IN \A i \in 1..Len(es) :
                       es[i][1] = IF i % 2 = 1 THEN "ActionDisabled" ELSE "ActionEnabled"

\* No enable or disable notification of a path comes before the "new action"
\* notification of the path
NewActionFirst(log) ==
    \A i \in 1..Len(log) :
        log[i][1] # "NewAction"
            => \E j \in 1..(i - 1) : log[j] = <<"NewAction", log[i][2]>>

\* C8, as the spec states it: while the listeners of the "new action"
\* notification of a path run, get_action gives the action of the path, its
\* enabled flag is true and no enabling has been computed for it; no enable or
\* disable notification of a path is emitted before the "new action"
\* notification of it.
C8_NewActionBeforeEnabling ==
    /\ \A k \in 1..Len(stack) :
          (stack[k].t = "emit" /\ stack[k].ev[1] = "NewAction")
              => /\ get_action(stack[k].ev[2]).res = "ok"
                 /\ get_action(stack[k].ev[2]).ret[1].path = stack[k].ev[2]
                 /\ get_action(stack[k].ev[2]).ret[1].enabled
                 /\ \A i \in 1..Len(subs) : subs[i].path # stack[k].ev[2]
    /\ \A i \in 1..Len(emitted) : emitted[i][1] = "NewAction" => emitted[i][2] \in Paths
    /\ NewActionFirst(emitted)

\* C8, amended: while the listeners of the "new action" notification of a
\* path run, get_action gives the action of the path, no enabling has been
\* computed for it, and its enabled flag is true until one of the listeners
\* writes it: it is true when no enable or disable notification of the path
\* has been emitted, and what the last one said otherwise.  No enable or
\* disable notification of a path is emitted before the "new action"
\* notification of it.
C8_NewActionBeforeRegistryEnabling ==
    /\ \A k \in 1..Len(stack) :
          (stack[k].t = "emit" /\ stack[k].ev[1] = "NewAction")
              => LET p == stack[k].ev[2]
                     es == EnableEvents(emitted, p)
                 IN /\ get_action(p).res = "ok"
                    /\ get_action(p).ret[1].path = p
                    /\ get_action(p).ret[1].enabled
                         = (es = <<>> \/ es[Len(es)][1] = "ActionEnabled")
                    /\ es = <<>> => \A l \in Listeners : EnableEvents(received[l], p) = <<>>
                    /\ \A i \in 1..Len(subs) : subs[i].path # p
    /\ \A i \in 1..Len(emitted) : emitted[i][1] = "NewAction" => emitted[i][2] \in Paths
    /\ NewActionFirst(emitted)

\* The last listener is getting the "new action" notification of a command
\* that a listener before it has disabled and that the tab types given will
\* enable again
C8_Witness ==
    /\ Len(stack) = 2
    /\ stack[1].t = "emit"
    /\ stack[1].ev[1] = "NewAction"
    /\ stack[1].idx = NumListeners
    /\ stack[2].tabtypes # None
    /\ isinstance(focused, stack[2].tabtypes[1])
    /\ ~ActionAt(stack[1].ev[2]).enabled

\* The class, or a base class of it, is one of the tab types
IsInstanceOf(cls, tabtypes) == cls \in tabtypes \/ (cls = "FileTab" /\ "Tab" \in tabtypes)

\* Membership as the spec words it: the class itself is one of the tab types.
IsMember(cls, tabtypes) == cls \in tabtypes

\* C9, as the spec states it: for an action registered with tab types, right
\* after the registration and right after every tab change, enabled is
\* (class of the selected tab is one of the tab types);
\* a tab change that alters this membership emits exactly one enable or
\* disable notification of the action, and one that leaves enabled as it is
\* emits none.
C9_EnabledIsMembership ==
    [][/\ (stack' = <<>> /\ outcome'.op \in RegOps /\ outcome'.res = "ok")
            => \A i \in 1..Len(subs') :
                  subs'[i].path = outcome'.path
                      => ActionIn(actions', subs'[i].path).enabled
                            = IsMember(focused', subs'[i].tabtypes)
       /\ (stack' = <<>> /\ outcome'.op = "tab_changed")
            => \A i \in 1..Len(subs') :
                  ActionIn(actions', subs'[i].path).enabled
                      = IsMember(focused', subs'[i].tabtypes)
       /\ (stack # <<>> /\ Head(stack).t = "tab")
            => LET sub == subs[Head(stack).idx]
               IN /\ IsMember(outcome.aux[1], sub.tabtypes)
                         # IsMember(outcome.aux[2], sub.tabtypes)
                        => Cardinality(EnableEventsAdded(sub.path)) = 1
                  /\ ActionIn(actions', sub.path).enabled = ActionAt(sub.path).enabled
                        => EnableEventsAdded(sub.path) = {}]_vars

\* The running call is about to recompute the enabled flag of an action from
\* its tab types: enable_or_disable() of the registration (line 106), or
\* enable_or_disable run by <<NotebookTabChanged>>.
Recomputes ==
    /\ stack # <<>>
    /\ \/ Head(stack).t = "add" /\ Head(stack).pc = "L95" /\ Head(stack).tabtypes # None
       \/ Head(stack).t = "tab"
\* The path and the tab types of that action
Recomputed ==
    IF Head(stack).t = "add"
    THEN [path |-> Head(stack).path, tabtypes |-> Head(stack).tabtypes[1]]
    ELSE subs[Head(stack).idx]

\* C9, amended: for an action registered with tab types, the registration
\* and every tab change recompute enabled: right after the recomputation,
\* before any listener of its notification runs, enabled is (class of the
\* selected tab, or a base class of it, is one of the tab types), whatever was
\* written to enabled before; the recomputation emits exactly one enable or
\* disable notification of the action if it changes enabled, and none if it
\* does not; and until the registration or the tab change is over, the
\* enabled flag of an action changes again only when a listener writes it
\* from inside its handler of a notification.
C9_EnabledIsInstance ==
    [][/\ Recomputes
            => LET p == Recomputed.path
                   now == ActionIn(actions', p).enabled
               IN /\ now = IsInstanceOf(focused, Recomputed.tabtypes)
                  /\ IF now = ActionAt(p).enabled
                     THEN emitted' = emitted
                     ELSE emitted' = Append(emitted,
                             <<IF now THEN "ActionEnabled" ELSE "ActionDisabled", p>>)
       /\ \A p \in Paths :
             (stack # <<>> /\ ActionIn(actions', p).enabled # ActionAt(p).enabled)
                 => \/ Recomputes /\ Recomputed.path = p
                    \/ Head(stack).t = "emit" /\ Head(stack).path = p]_vars

\* A tab change from no tab to a FileTab has re-enabled an action registered
\* for Tab, which the registration had disabled, and the first listener has
\* disabled it again from inside its handler of the notification
C9_Witness ==
    /\ stack # <<>>
    /\ outcome.op = "tab_changed"
    /\ outcome.aux = <<"NoneType", "FileTab">>
    /\ focused = "FileTab"
    /\ \E i \in 1..Len(subs) :
          /\ subs[i].tabtypes = {"Tab"}
          /\ ~ActionAt(subs[i].path).enabled
          /\ EnableEvents(emitted, subs[i].path)
                = <<<<"ActionDisabled", subs[i].path>>, <<"ActionEnabled", subs[i].path>>,
                    <<"ActionDisabled", subs[i].path>>>>

\* C10: a key press runs the handlers of the key in order; the handler of an
\* action whose enabled flag is false calls no callback and flips no cell, and
\* does not stop the event: the next handler of the key runs, and after the
\* last handler the event is left unhandled.  Inside and outside Text widgets.
C10_DisabledHandlerPassesOn ==
    [][(Ready /\ outcome'.op = "key")
         => LET chain == Chain(outcome'.aux[1], outcome'.aux[2])
                invoked == outcome'.path
            IN /\ actions' = actions
               /\ \A i \in 1..Len(chain) :
                     (\A j \in 1..i : ~ActionAt(chain[j]).enabled)
                         => /\ Len(invoked) >= i
                            /\ invoked[i] = chain[i]
                            /\ i < Len(chain)
                                 => Len(invoked) > i /\ invoked[i + 1] = chain[i + 1]
                            /\ i = Len(chain) => outcome'.res = "None"
               /\ \A p \in Paths :
                     ~ActionAt(p).enabled
                         => /\ ActionAt(p).kind = "command" => calls'[p] = calls[p]
                            /\ ActionAt(p).kind = "yesno"
                                 => \/ bvars'[ActionAt(p).var[1]] = bvars[ActionAt(p).var[1]]
                                    \/ /\ outcome'.res = "break"
                                       /\ ActionAt(invoked[Len(invoked)]).enabled
                                       /\ ActionAt(invoked[Len(invoked)]).var = ActionAt(p).var]_vars

\* Inside a Text widget the handler of a disabled yes/no action ran first and
\* the handler of an enabled action after it
C10_Witness ==
    /\ outcome.op = "key"
    /\ outcome.aux = <<"k", TRUE>>
    /\ outcome.res = "break"
    /\ Len(outcome.path) >= 2
    /\ ~ActionAt(outcome.path[1]).enabled
    /\ ActionAt(outcome.path[1]).kind = "yesno"
    /\ ActionAt(outcome.path[Len(outcome.path)]).enabled

\* ------------------------------------------------------------- key presses
\* The actions registered with the key, in the order of their registration
BoundTo(acts, key) == SelectSeq(acts, LAMBDA a : a.binding = Some(key))

\* The step performs the effect of action a exactly once: one more call of a
\* command's callback, the negation in a yes/no action's BooleanVar
EffectOnce(a) ==
    IF a.kind = "command"
    THEN calls'[a.path] = calls[a.path] + 1
    ELSE bvars'[a.var[1]] = ~bvars[a.var[1]]

\* The number of effects the step performs: calls of callbacks and negations
RECURSIVE SumCalls(_, _)
SumCalls(cl, ps) ==
    IF ps = {} THEN 0
    ELSE LET p == CHOOSE x \in ps : TRUE IN cl[p] + SumCalls(cl, ps \ {p})
EffectsDone ==
    (SumCalls(calls', DOMAIN calls) - SumCalls(calls, DOMAIN calls))
        + Cardinality({c \in DOMAIN bvars : bvars'[c] # bvars[c]})

\* C11, as the spec states it: a press of the key performs the effect of every
\* enabled action bound to the key exactly once and stops the event, inside
\* and outside Text widgets.
C11_EnabledShortcutActsOnce ==
    [][(Ready /\ outcome'.op = "key")
         => \A i \in 1..Len(actions) :
               (actions[i].binding = Some(outcome'.aux[1]) /\ actions[i].enabled)
                   => /\ EffectOnce(actions[i])
                      /\ EffectsDone = 1
                      /\ outcome'.res = "break"]_vars

\* C11, amended: a press of the key performs the effect of an enabled action
\* bound to the key exactly once and stops the event, inside and outside Text
\* widgets, when no other action bound to the same key is enabled.
C11_OnlyEnabledShortcutActsOnce ==
    [][(Ready /\ outcome'.op = "key")
         => \A i \in 1..Len(actions) :
               (/\ actions[i].binding = Some(outcome'.aux[1])
                /\ actions[i].enabled
                /\ \A j \in 1..Len(actions) :
                      (j # i /\ actions[j].binding = actions[i].binding)
                          => ~actions[j].enabled)
                   => /\ EffectOnce(actions[i])
                      /\ EffectsDone = 1
                      /\ outcome'.res = "break"
                      /\ outcome'.path[Len(outcome'.path)] = actions[i].path]_vars

\* Inside a Text widget, where the handler of the Text class and the handler
\* of 'all' are both the one of the only action, its callback ran once
C11_Witness ==
    /\ outcome.op = "key"
    /\ outcome.aux = <<"k", TRUE>>
    /\ outcome.res = "break"
    /\ Len(actions) = 1
    /\ actions[1].kind = "command"
    /\ bindText["k"] = Some(actions[1].path)
    /\ bindAll["k"] = <<actions[1].path>>
    /\ calls[actions[1].path] = 1

\* C12, as the spec states it: for every enabled action registered with the
\* key, whatever was registered with the same key later, a press of the key
\* inside a Text widget runs that action's handler of the Text class first and
\* performs that action's effect.
C12_TextHandlerOfEveryAction ==
    [][(Ready /\ outcome'.op = "key" /\ outcome'.aux[2])
         => \A i \in 1..Len(actions) :
               (actions[i].binding = Some(outcome'.aux[1]) /\ actions[i].enabled)
                   => /\ outcome'.path = <<actions[i].path>>
                      /\ EffectOnce(actions[i])]_vars

\* C20: one press of the key performs at most one effect, whatever the
\* enabled flags are, inside and outside Text widgets: the handlers run are
\* the Text handler of the action registered last with the key (inside a Text
\* widget only) and then the 'all' handlers in the order of registration, up
\* to and including the first one whose action is enabled, which stops the
\* event; only that action's effect is performed.
C20_AtMostOneEffect ==
    [][(Ready /\ outcome'.op = "key")
         => LET bound == BoundTo(actions, outcome'.aux[1])
                text == IF outcome'.aux[2] /\ bound # <<>>
                        THEN <<bound[Len(bound)]>> ELSE <<>>
                chain == text \o bound
                invoked == outcome'.path
                stops == {i \in 1..Len(chain) : chain[i].enabled}
            IN /\ EffectsDone <= 1
               /\ Len(invoked) <= Len(chain)
               /\ \A i \in 1..Len(invoked) : invoked[i] = chain[i].path
               /\ IF stops = {}
                  THEN /\ Len(invoked) = Len(chain)
                       /\ outcome'.res = "None"
                       /\ EffectsDone = 0
                  ELSE /\ Len(invoked) \in stops
                       /\ \A i \in stops : i >= Len(invoked)
                       /\ outcome'.res = "break"
                       /\ EffectsDone = 1
                       /\ EffectOnce(chain[Len(invoked)])]_vars

\* Two enabled actions share the key: inside a Text widget the one registered
\* last acted, and only it
C20_Witness ==
    /\ outcome.op = "key"
    /\ outcome.aux = <<"k", TRUE>>
    /\ Len(actions) = 2
    /\ actions[1].enabled /\ actions[2].enabled
    /\ actions[1].kind = "command" /\ actions[2].kind = "command"
    /\ outcome.path = <<actions[2].path>>
    /\ calls[actions[1].path] = 0
    /\ calls[actions[2].path] = 1

\* ------------------------------------------------------------- values
\* x is one of the choices
IsChoice(choices, x) == \E i \in 1..Len(choices) : choices[i] = x

\* The step is a call of add_choice / add_yesno; its arguments are in outcome'
ChoiceCall == Ready /\ outcome'.op = "add_choice"
YesNoCall == Ready /\ outcome'.op = "add_yesno"

\* C13, as the spec states it: after a successful add_choice the variable of the new action holds one
\* of the choices: without var, the default if given, else choices[0]; with
\* var, the default if given, else what var held before the call, and then
\* var is not written.
C13_ChoiceCellAfterAdd ==
    [][(ChoiceCall /\ outcome'.res = "ok")
         => LET choices == outcome'.aux[1]
                default == outcome'.aux[2]
                var == outcome'.aux[3]
                a == ActionIn(actions', outcome'.path)
                value == svars'[a.var[1]]
            IN /\ a.kind = "choice"
               /\ a.choices = choices
               /\ IsChoice(choices, value)
               /\ var = None
                    => /\ a.var[1] \notin DOMAIN svars
                       /\ value = IF default # None THEN default[1] ELSE choices[1]
               /\ var # None
                    => /\ a.var = var
                       /\ value = IF default # None THEN default[1] ELSE svars[var[1]]
                       /\ default = None => svars' = svars /\ warnings' = warnings]_vars

\* C14: add_choice fails with InvalidChoiceError whenever a default is given
\* that is not in choices, or a var is given whose content is not in choices;
\* the failed call registers no action, emits nothing and leaves every
\* variable as it was.
C14_BadChoiceFailsClean ==
    [][ChoiceCall
         => LET choices == outcome'.aux[1]
                default == outcome'.aux[2]
                var == outcome'.aux[3]
            IN (\/ default # None /\ ~IsChoice(choices, default[1])
                \/ var # None /\ ~IsChoice(choices, svars[var[1]]))
                  => /\ outcome'.res = "InvalidChoiceError"
                     /\ actions' = actions
                     /\ emitted' = emitted
                     /\ stack' = <<>>
                     /\ svars' = svars
                     /\ warnings' = warnings]_vars

\* A default that is a choice, with a var whose content "d" is not: the call
\* failed and var still holds "d"
C14_Witness ==
    /\ outcome.op = "add_choice"
    /\ outcome.res = "InvalidChoiceError"
    /\ outcome.aux = <<<<"b", "c">>, Some("b"), Some(SharedS)>>
    /\ svars[SharedS] = "d"
    /\ stack = <<>>

\* C15: add_choice with an empty list of choices fails, with any default and
\* any var, and registers nothing; every registered choice action has at
\* least one choice.
C15_EmptyChoicesFail ==
    [][/\ (ChoiceCall /\ outcome'.aux[1] = <<>>)
            => /\ outcome'.res \in {"IndexError", "InvalidChoiceError"}
               /\ outcome'.res = "IndexError"
                    <=> (outcome'.aux[2] = None /\ outcome'.aux[3] = None)
               /\ actions' = actions
               /\ emitted' = emitted
       /\ \A i \in 1..Len(actions') :
             actions'[i].kind = "choice" => actions'[i].choices # <<>>]_vars

\* The call with no choices, a default and the caller's var failed
C15_Witness ==
    /\ outcome.op = "add_choice"
    /\ outcome.aux = <<<<>>, Some("b"), Some(SharedS)>>
    /\ outcome.res = "InvalidChoiceError"
    /\ actions # <<>>

\* C16, as the spec states it: a direct write of the variable of a registered
\* choice action does not raise and leaves the written value in the variable
\* (as the variable gives it back); it makes exactly one report for every
\* choice action of that variable whose choices do not have the written
\* value, and none for the others; the actions, their enabled flags included,
\* and the notifications are as before.
C16_WriteOutsideChoicesWarns ==
    [][(/\ Ready
        /\ outcome'.op = "var_set"
        /\ \E i \in 1..Len(actions) :
              /\ actions[i].kind = "choice"
              /\ actions[i].var = Some(<<outcome'.aux[1], outcome'.path>>))
         => LET cell == <<outcome'.aux[1], outcome'.path>>
                value == outcome'.aux[2]
                reported == {i \in 1..Len(actions) :
                                /\ actions[i].kind = "choice"
                                /\ actions[i].var = Some(cell)
                                /\ ~IsChoice(actions[i].choices, value)}
            IN /\ outcome'.res = "ok"
               /\ svars'[cell] = str(value)
               /\ actions' = actions
               /\ emitted' = emitted
               /\ \A i \in 1..Len(actions) :
                     actions[i].kind = "choice"
                       => Cardinality({k \in 1..Len(warnings') :
                                          warnings'[k] = <<actions[i].path, str(value)>>})
                            = IF i \in reported THEN 1 ELSE 0
               /\ Len(warnings') = Cardinality(reported)]_vars

\* C17: add_yesno with neither default nor var fails with ConfigurationError
\* and registers nothing; a successful add_yesno gives the action the var of
\* the call, or a new variable when there is none, holding the default if one
\* is given, else what var held before the call.
C17_YesNoCellAfterAdd ==
    [][YesNoCall
         => LET default == outcome'.aux[1]
                var == outcome'.aux[2]
            IN /\ (default = None /\ var = None)
                    => /\ outcome'.res = "ConfigurationError"
                       /\ actions' = actions
                       /\ emitted' = emitted
                       /\ bvars' = bvars
               /\ outcome'.res = "ok"
                    => LET a == ActionIn(actions', outcome'.path)
                       IN /\ a.kind = "yesno"
                          /\ ~(default = None /\ var = None)
                          /\ var # None => a.var = var
                          /\ var = None => a.var[1] \notin DOMAIN bvars
                          /\ bvars'[a.var[1]]
                               = IF default # None THEN default[1]
                                 ELSE bvars[var[1]]]_vars

\* A yes/no action took the caller's BooleanVar, which held TRUE, without a
\* default
C17_Witness ==
    /\ outcome.op = "add_yesno"
    /\ outcome.res = "ok"
    /\ outcome.aux = <<None, Some(SharedB)>>
    /\ bvars[SharedB] = TRUE

\* ------------------------------------------------------------- the mapping
\* The identity of an action: everything but its enabled flag
Identity(a) == [a EXCEPT !.enabled = TRUE]

\* The paths of the successful registrations so far, one per <<NewAction>>
Registered(log) == {log[k][2] : k \in {n \in 1..Len(log) : log[n][1] = "NewAction"}}

\* C18: get_all_actions gives exactly one action for every path registered
\* with success and nothing else: as many actions as successful
\* registrations; a successful registration adds the action of its path, no
\* other step adds one, and no step removes an action or puts another action
\* under a path that is taken.
C18_OneActionPerRegisteredPath ==
    [][LET all == get_all_actions'
       IN /\ \A i, j \in 1..Len(all) : all[i].path = all[j].path => i = j
          /\ {all[i].path : i \in 1..Len(all)} = Registered(emitted')
          /\ Len(all) = Cardinality({n \in 1..Len(emitted') : emitted'[n][1] = "NewAction"})
          /\ Len(all) >= Len(get_all_actions)
          /\ \A i \in 1..Len(get_all_actions) :
                Identity(all[i]) = Identity(get_all_actions[i])
          /\ IF RegCall /\ outcome'.res = "ok"
             THEN /\ Len(all) = Len(get_all_actions) + 1
                  /\ all[Len(all)].path = outcome'.path
                  /\ all[Len(all)].kind = KindOf(outcome'.op)
             ELSE Len(all) = Len(get_all_actions)]_vars

\* Three registrations have succeeded, one of each kind, and a fourth call,
\* on the path of the first and of another kind, has failed: there are
\* exactly three actions
C18_Witness ==
    /\ Len(get_all_actions) = 3
    /\ {get_all_actions[i].kind : i \in 1..3} = {"command", "yesno", "choice"}
    /\ Cardinality({n \in 1..Len(emitted) : emitted[n][1] = "NewAction"}) = 3
    /\ outcome.op \in RegOps
    /\ outcome.res = "DuplicatePathError"
    /\ outcome.path = get_all_actions[1].path
    /\ get_all_actions[1].kind # KindOf(outcome.op)

\* ------------------------------------------------------------- reentrancy
\* C19, as the spec states it: every listener gets the enable and disable
\* notifications of an action in the order of the transitions of its enabled
\* flag, also when a listener writes enabled from inside its handler: what a
\* listener has got so far is a beginning of the sequence of transitions, and
\* all of it once no call is running.
C19_ListenersSeeTransitionOrder ==
    \A l \in Listeners : \A p \in Paths :
        LET got == EnableEvents(received[l], p)
            occurred == EnableEvents(emitted, p)
        IN /\ Len(got) <= Len(occurred)
           /\ got = SubSeq(occurred, 1, Len(got))
           /\ stack = <<>> => got = occurred

====
